---- MODULE Spec2Model ----
(***************************************************************************)
(* Resampling inference and Shapley decomposition of segregation indices.  *)
(*                                                                         *)
(* One behaviour is one call of one of the three entry points              *)
(*   _infer_segregation      (inference/inference_wrappers.py)             *)
(*   _compare_segregation    (inference/inference_wrappers.py)             *)
(*   _decompose_segregation  (decomposition/decompose_segregation.py)      *)
(* followed step by step: argument validation, the set-up of the chosen    *)
(* null approach, one action per simulation round, and the final           *)
(* filtering / p-value computation.                                        *)
(*                                                                         *)
(* The index formula (seg_class._function) and the random generator are    *)
(* external: an evaluation returns any float of StatVals, and the          *)
(* counters nDraws / nEvals / nCopies / nGen record how often the call     *)
(* has used the random generator, the index formula, DataFrame.copy() and  *)
(* _generate_counterfactual.                                               *)
(***************************************************************************)
EXTENDS Integers, Sequences, FiniteSets, TLC

(* ------------------------------ bounds -------------------------------- *)

\* largest iterations_under_null tried with the one-sample engine
MaxIter == 3

\* largest iterations_under_null tried with the two-sample engine
MaxIterCompare == 2

\* finite statistics returned by the index formula are 0..MaxStat
MaxStat == 2

\* number of units (rows) of every dataset
NumUnits == 2

\* significand width of the floats (float64 has 53)
MantissaBits == 3

\* the largest count one cell of an input dataset holds
MaxPop == 1

(* ------------------------------ floats -------------------------------- *)
\* A float64 is a tagged pair: a finite value, NaN, or a signed infinity.

Fin(n) == <<"fin", n>>
NaN == <<"nan", 0>>
PosInf == <<"inf", 1>>
NegInf == <<"inf", -1>>

\* a slot of np.empty() that nothing has written yet
Uninit == <<"uninit", 0>>

isnan(x) == x[1] = "nan"

isinf(x) == x[1] = "inf"

\* IEEE a < b: false as soon as one side is NaN
FLess(a, b) ==
    IF isnan(a) \/ isnan(b) THEN FALSE
    ELSE IF isinf(a) /\ isinf(b) THEN a[2] < b[2]
    ELSE IF isinf(a) THEN a[2] < 0
    ELSE IF isinf(b) THEN b[2] > 0
    ELSE a[2] < b[2]

RECURSIVE Pow2(_)
Pow2(k) == IF k = 0 THEN 1 ELSE 2 * Pow2(k - 1)

\* spacing of the floats around magnitude m, in units of the smallest one
RECURSIVE UlpFrom(_, _)
UlpFrom(m, u) == IF m < Pow2(MantissaBits) * u THEN u ELSE UlpFrom(m, 2 * u)

Ulp(m) == UlpFrom(m, 1)

\* the nearest multiple of u to magnitude m, ties to the even multiple
NearestEven(m, u) ==
    LET q == m \div u
        r == m % u
    IN  IF 2 * r < u THEN q * u
        ELSE IF 2 * r > u THEN (q + 1) * u
        ELSE IF q % 2 = 0 THEN q * u ELSE (q + 1) * u

Magnitude(n) == IF n < 0 THEN 0 - n ELSE n

\* the float nearest to the exact result n of one arithmetic operation
RoundFloat(n) ==
    LET m == Magnitude(n) IN
    IF n < 0 THEN 0 - NearestEven(m, Ulp(m)) ELSE NearestEven(m, Ulp(m))

\* n is itself a float
Representable(n) == RoundFloat(n) = n

\* IEEE a - b: inf - inf of the same sign is NaN
FSub(a, b) ==
    IF isnan(a) \/ isnan(b) THEN NaN
    ELSE IF isinf(a) /\ isinf(b) THEN (IF a[2] = b[2] THEN NaN ELSE a)
    ELSE IF isinf(a) THEN a
    ELSE IF isinf(b) THEN <<"inf", 0 - b[2]>>
    ELSE Fin(RoundFloat(a[2] - b[2]))

\* IEEE a + b
FAdd(a, b) ==
    IF isnan(a) \/ isnan(b) THEN NaN
    ELSE IF isinf(a) /\ isinf(b) THEN (IF a[2] = b[2] THEN a ELSE NaN)
    ELSE IF isinf(a) THEN a
    ELSE IF isinf(b) THEN b
    ELSE Fin(RoundFloat(a[2] + b[2]))

\* what one evaluation of the index formula can return
StatVals == {Fin(n) : n \in 0..MaxStat} \cup {NaN, PosInf}

\* the statistic an index result carries
PointVals == {Fin(0), Fin(1)}

\* what one evaluation on a counterfactual dataset can return: as above, or
\* the smallest float whose neighbours are more than one unit apart
DecomposeStatVals == StatVals \cup {Fin(Pow2(MantissaBits))}

(* --------------------------- index results ---------------------------- *)

SegClasses == {"ModifiedGini", "MultiDissim", "object"}

\* isinstance(seg_class, SingleGroupIndex)
IsSingleGroupIndex(cls) == cls = "ModifiedGini"

IsMultiGroupIndex_Never(cls) == FALSE

\* isinstance(seg_class, MultiGroupIndex)
IsMultiGroupIndex(cls) == cls = "MultiDissim"

\* the formula an index result stores in _function
FunctionOf(cls) ==
    CASE cls = "ModifiedGini" -> "_modified_gini"
      [] cls = "MultiDissim" -> "_multi_dissim"
      [] OTHER -> "_function_of_object"

DataTypes == {"DataFrame", "GeoDataFrame"}

\* the groups of a multigroup index result whose dataset is the default one
DefaultGroups == <<"group_a", "group_b">>

\* the lists of group columns a multigroup index result can have been built on
GroupLists ==
    {DefaultGroups, <<"group_b", "group_a">>, <<"group_a", "group_c">>}

\* an index result: its class, its statistic, the type of the dataset it
\* was built on and, if it is a multigroup result, its groups
IndexResults ==
    {s \in [cls : SegClasses, statistic : PointVals, dataType : DataTypes,
            groups : GroupLists \cup {<<>>}] :
        IF IsMultiGroupIndex(s.cls) THEN s.groups \in GroupLists
        ELSE s.groups = <<>>}

(* ------------------------------ datasets ------------------------------ *)

\* len() of the dataset of index result d: the two datasets differ in length
Rows(d) == IF d = 1 THEN NumUnits ELSE NumUnits - 1

\* one value of a column: what it is, of which dataset, of which row
Cell(kind, d, r) == <<kind, d, r>>

\* a column of the dataset of index result d, row by row
Column(kind, d) == [r \in 1..Rows(d) |-> Cell(kind, d, r)]

\* a column holding the same value in each of n rows
Constant(kind, n) == [r \in 1..n |-> Cell(kind, 0, 0)]

\* a DataFrame is a function from column names to columns
NoFrame == [c \in {} |-> <<>>]

\* the names of the population columns of an index result
PopulationColumns(cls) ==
    IF IsMultiGroupIndex(cls) THEN {"group_a", "group_b"}
    ELSE {"group_pop_var", "total_pop_var"}

\* seg_class.data / core_data of index result d as the caller holds it: a
\* multigroup result keeps data[groups], the group columns alone, whatever
\* the type of the dataset it was built on
CallerData(s, d) ==
    LET names == IF IsMultiGroupIndex(s.cls)
                 THEN {s.groups[k] : k \in 1..Len(s.groups)}
                 ELSE PopulationColumns(s.cls) \cup
                     (IF s.dataType = "GeoDataFrame" THEN {"geometry"} ELSE {})
    IN  [c \in names |->
            Column(CASE c = "group_pop_var" -> "group"
                     [] c = "total_pop_var" -> "total"
                     [] OTHER -> c, d)]

\* frame[name] = col, and DataFrame.assign(name=col)
WithColumn(frame, name, col) ==
    [c \in DOMAIN frame \cup {name} |-> IF c = name THEN col ELSE frame[c]]

\* DataFrame.drop(names, axis=1)
Drop(frame, names) == [c \in DOMAIN frame \ names |-> frame[c]]

\* .round(0).astype(int) of one value
RoundToInt(cell) ==
    Cell(CASE cell[1] = "group" -> "group_int"
           [] cell[1] = "total" -> "total_int"
           [] cell[1] = "group_a" -> "group_a_int"
           [] cell[1] = "group_b" -> "group_b_int"
           [] OTHER -> cell[1], cell[2], cell[3])

\* the frame with the named columns rounded to integers
Rounded(frame, names) ==
    [c \in DOMAIN frame |->
        IF c \in names THEN [r \in 1..Len(frame[c]) |-> RoundToInt(frame[c][r])]
        ELSE frame[c]]

\* pd.concat([f, g]): rows of g after the rows of f
Concat(f, g) == [c \in DOMAIN f \cap DOMAIN g |-> f[c] \o g[c]]

\* the rows of frame at the positions idx, in that order
TakeRows(frame, idx) ==
    [c \in DOMAIN frame |-> [k \in 1..Len(idx) |-> frame[c][idx[k]]]]

\* the positions of a column that hold the value v, in ascending order
RECURSIVE PositionsFrom(_, _, _)
PositionsFrom(col, v, k) ==
    IF k > Len(col) THEN <<>>
    ELSE IF col[k] = v THEN <<k>> \o PositionsFrom(col, v, k + 1)
    ELSE PositionsFrom(col, v, k + 1)

Positions(col, v) == PositionsFrom(col, v, 1)

\* the orders n rows can be put in
RowOrders(n) ==
    {p \in [1..n -> 1..n] : \A a, b \in 1..n : p[a] = p[b] => a = b}

\* col reordered by the permutation p
Permuted(col, p) == [k \in 1..Len(col) |-> col[p[k]]]

\* a count as the value of a cell
Number(n) == <<"int", n, 0>>

\* what a cell holds after an assignment found no row with its label
Missing == <<"missing", 0, 0>>

\* Series.sum() of a column of counts
RECURSIVE SumFrom(_, _)
SumFrom(col, k) == IF k > Len(col) THEN 0 ELSE col[k] + SumFrom(col, k + 1)

ColumnSum(col) == SumFrom(col, 1)

\* the counts of the population columns an index result of class cls can
\* hold: a focal group is part of the total
InputValues(cls) ==
    {v \in [PopulationColumns(cls) -> [1..NumUnits -> 0..MaxPop]] :
        IsMultiGroupIndex(cls) \/
        \A r \in 1..NumUnits : v["group_pop_var"][r] <= v["total_pop_var"][r]}

\* one person of each population column, in the first unit
DefaultValues(cls) ==
    [c \in PopulationColumns(cls) |->
        [r \in 1..NumUnits |-> IF r = 1 THEN 1 ELSE 0]]

\* pd.RangeIndex(n): the row labels 0, 1, ...
RangeIndex(n) == [r \in 1..n |-> r - 1]

\* the row labels a dataset can carry: distinct integers
InputIndexes ==
    {x \in [1..NumUnits -> 0..NumUnits] :
        \A a, b \in 1..NumUnits : x[a] = x[b] => a = b}

\* whether one row carries the label
HasLabel(index, label) == \E j \in 1..Len(index) : index[j] = label

\* the position of the row that carries the label
LabelPosition(index, label) == CHOOSE j \in 1..Len(index) : index[j] = label

\* frame[name] = series on a frame with a RangeIndex of n rows: row k takes
\* the value the series has at label k - 1, or a missing value
Aligned(col, index, n) ==
    [k \in 1..n |->
        IF HasLabel(index, k - 1) THEN col[LabelPosition(index, k - 1)]
        ELSE Missing]

\* what names the frames the call can hold
Refs == {"caller_1", "caller_2", "copy_1", "copy_2", "new_1", "new_2",
         "stacked", "none"}

\* frames the caller keeps a reference to whatever the call does
CallerRefs == {"caller_1", "caller_2"}

DataFrameCopy_Alias(ref, fresh) == ref

\* frame.copy(): the reference of a new frame
DataFrameCopy(ref, fresh) == fresh

\* the heap once the frames no name refers to any more are released
Release(heap, live) ==
    [r \in Refs |-> IF r \in live \cup CallerRefs THEN heap[r] ELSE NoFrame]

(* ---------------------------- configuration --------------------------- *)

InferNullApproaches ==
    {"systematic", "bootstrap", "evenness", "permutation",
     "systematic_permutation", "even_permutation"}

CompareNullApproaches ==
    {"random_label", "counterfactual_composition", "counterfactual_share",
     "counterfactual_dual_composition"}

CounterfactualNullApproaches ==
    {"counterfactual_composition", "counterfactual_share",
     "counterfactual_dual_composition"}

CounterfactualApproaches == {"composition", "share", "dual_composition"}

\* null_approach[15:]
InternalArg(na) ==
    CASE na = "counterfactual_composition" -> "composition"
      [] na = "counterfactual_share" -> "share"
      [] na = "counterfactual_dual_composition" -> "dual_composition"
      [] OTHER -> ""

\* the values tried for two_tailed: the two booleans and an int
TwoTailedVals == {"True", "False", "1"}

IsBool_NoCheck(tt) == TRUE

\* type(two_tailed) is bool
IsBool(tt) == tt \in {"True", "False"}

SameType_NoCheck(s1, s2) == TRUE

\* type(seg_class_1) == type(seg_class_2)
SameType(s1, s2) == s1.cls = s2.cls

\* index1._function == index2._function
SameFunction(s1, s2) == FunctionOf(s1.cls) = FunctionOf(s2.cls)

MultiGroupSupported_PlusSystematic(na) ==
    na \in {"bootstrap", "evenness", "systematic"}

\* the branches of _infer_segregation that hold a loop for MultiGroupIndex
MultiGroupSupported(na) == na \in {"bootstrap", "evenness"}

RequiresGeoDataFrame_OnlyPermutation(na) == na = "permutation"

\* the branches of _infer_segregation that start with the GeoDataFrame test
RequiresGeoDataFrame(na) ==
    na \in {"permutation", "systematic_permutation", "even_permutation"}

\* str(type(data)) == "<class 'geopandas.geodataframe.GeoDataFrame'>"
IsGeoDataFrame(s) == s.dataType = "GeoDataFrame"

(* ------------------------------ p-value ------------------------------- *)

RECURSIVE CountIf(_, _, _)
\* number of entries e of est with Test(pe, e): a boolean array summed
CountIf(est, pe, above) ==
    IF est = <<>> THEN 0
    ELSE (IF (IF above THEN FLess(pe, Head(est)) ELSE FLess(Head(est), pe))
          THEN 1 ELSE 0) + CountIf(Tail(est), pe, above)

\* (Estimates_Stars > point_estimation), summed
SumGreater(est, pe) == CountIf(est, pe, TRUE)

\* aux1 = (point_estimation < Estimates_Stars).sum()
Aux1(est, pe) == CountIf(est, pe, TRUE)

RECURSIVE Aux2_CountsTies(_, _)
Aux2_CountsTies(est, pe) ==
    IF est = <<>> THEN 0
    ELSE (IF ~FLess(pe, Head(est)) THEN 1 ELSE 0)
         + Aux2_CountsTies(Tail(est), pe)

\* aux2 = (point_estimation > Estimates_Stars).sum()
Aux2(est, pe) == CountIf(est, pe, FALSE)

\* np.array([a, b]).min()
ArrayMin(a, b) == IF a <= b THEN a ELSE b

\* numpy true division of two integers: x / 0 warns and gives nan or inf
TrueDivide(a, b) ==
    IF b # 0 THEN <<"frac", a, b>>
    ELSE IF a = 0 THEN <<"nan", 0, 0>>
    ELSE <<"inf", a, 0>>

NoPValue == <<"none", 0, 0>>

OneTailedPValue_OverSurvivors(est, pe, iters) ==
    TrueDivide(SumGreater(est, pe), Len(est))

\* p_value = sum(Estimates_Stars > point_estimation) / iterations_under_null
OneTailedPValue(est, pe, iters) == TrueDivide(SumGreater(est, pe), iters)

\* p_value = 2 * np.array([aux1, aux2]).min() / len(Estimates_Stars)
TwoTailedPValue(est, pe) ==
    TrueDivide(2 * ArrayMin(Aux1(est, pe), Aux2(est, pe)), Len(est))

\* point_estimation = seg_class.statistic
InferPointEstimation(s) == s.statistic

ComparePointEstimation_Swapped(s1, s2) == FSub(s2.statistic, s1.statistic)

\* point_estimation = seg_class_1.statistic - seg_class_2.statistic
ComparePointEstimation(s1, s2) == FSub(s1.statistic, s2.statistic)

IsBadEstimate_OnlyNaN(x) == isnan(x)

\* np.isinf(x) | np.isnan(x)
IsBadEstimate(x) == isinf(x) \/ isnan(x)

\* any(np.isinf(est) | np.isnan(est))
AnyBad(est) == \E k \in 1..Len(est) : IsBadEstimate(est[k])

DropBad_NewestFirst(est) ==
    LET kept == SelectSeq(est, LAMBDA x : ~IsBadEstimate(x))
    IN  [k \in 1..Len(kept) |-> kept[Len(kept) + 1 - k]]

\* est[~(np.isinf(est) | np.isnan(est))]
DropBad(est) == SelectSeq(est, LAMBDA x : ~IsBadEstimate(x))

(* ------------------------------- state -------------------------------- *)

VARIABLES
    op,                     \* which entry point this call is
    pc,                     \* where the call stands
    err,                    \* the exception that ended the call, or "none"
    null_approach,
    two_tailed,
    iterations_under_null,
    counterfactual_approach,
    seg_class_1,            \* seg_class / seg_class_1 / index1
    seg_class_2,            \* seg_class_2 / index2
    point_estimation,
    est_sim,                \* Estimates_Stars / est_sim
    i,                      \* rounds completed
    p_value,
    pbar,                   \* pbar.update(1) calls
    nWarn,                  \* warnings.warn calls
    nBad,                   \* rounds whose stored statistic was NaN or infinite
    nDraws,                 \* calls of np.random.*
    nEvals,                 \* calls of seg_class._function
    nCopies,                \* calls of DataFrame.copy()
    nGen,                   \* calls of _generate_counterfactual
    G,                      \* the four cross statistics of the decomposition
    C_S,
    C_A,
    calls,                  \* decomposition: the index-function calls made
    data_1,                 \* the frame data / data_1 / df1 is bound to
    data_2,                 \* the frame data_2 / df2 is bound to
    frames,                 \* the content of every frame that is referred to
    baseline,               \* the working frames as they were at loop entry
    passed,                 \* two-sample engine: what the step just taken
                            \* handed to the index function
    simulations,            \* two-sample engine: what the function returned
                            \* in the round in progress
    data_values,            \* the counts the population columns of
                            \* seg_class.data hold
    data_index,             \* seg_class.data.index: its row labels
    iterations,             \* _modified_gini: its iterations argument
    D,                      \* _modified_gini: the index of the observed data
    Ds,                     \* _modified_gini: the index of each simulation
    Dct,                    \* _modified_gini: the statistic it returns
    core_data,              \* _modified_gini: the frame it returns
    self_data,              \* ModifiedGini: the frame self.data is bound to
    replay                  \* what a second run of the same call on the same
                            \* inputs and draws returned, once it is observed

vars ==
    <<op, pc, err, null_approach, two_tailed, iterations_under_null,
      counterfactual_approach, seg_class_1, seg_class_2, point_estimation,
      est_sim, i, p_value, pbar, nWarn, nBad, nDraws, nEvals, nCopies, nGen,
      G, C_S, C_A, calls, data_1, data_2, frames, baseline, passed,
      simulations, data_values, data_index, iterations, D, Ds, Dct,
      core_data, self_data, replay>>

inputs ==
    <<op, null_approach, two_tailed, iterations_under_null, seg_class_1,
      seg_class_2, data_values, data_index>>

counters == <<nDraws, nEvals, nCopies, nGen>>

gini == <<iterations, D, Ds, Dct, core_data, self_data>>

decomposition == <<G, C_S, C_A, calls>>

memory == <<data_1, data_2, frames, baseline, passed, simulations>>

\* the frames a round works on
WorkingData(heap, d1, d2) == <<heap[d1], heap[d2], heap["stacked"]>>

NoG == [s1_a1 |-> Uninit, s1_a2 |-> Uninit, s2_a1 |-> Uninit, s2_a2 |-> Uninit]

\* nothing of the call has run yet
NotStarted ==
    /\ pc = "call"
    /\ err = "none"
    /\ point_estimation = Uninit
    /\ est_sim = <<>>
    /\ i = 0
    /\ p_value = NoPValue
    /\ pbar = 0
    /\ nWarn = 0
    /\ nBad = 0
    /\ nDraws = 0
    /\ nEvals = 0
    /\ nCopies = 0
    /\ nGen = 0
    /\ G = NoG
    /\ C_S = Uninit
    /\ C_A = Uninit
    /\ calls = <<>>
    /\ data_1 = "none"
    /\ data_2 = "none"
    /\ frames = [r \in Refs |->
                    IF r = "caller_1" THEN CallerData(seg_class_1, 1)
                    ELSE IF r = "caller_2" /\ op \in {"compare", "decompose"}
                    THEN CallerData(seg_class_2, 2)
                    ELSE NoFrame]
    /\ baseline = <<>>
    /\ passed = <<>>
    /\ simulations = <<>>
    /\ D = Uninit
    /\ Ds = <<>>
    /\ Dct = Uninit
    /\ core_data = "none"
    /\ self_data = "caller_1"
    /\ replay = <<>>

Init ==
    /\ op \in {"infer", "compare", "decompose"}
    /\ seg_class_1 \in IndexResults
    /\ seg_class_1.groups \in {DefaultGroups, <<>>}
    /\ data_values = DefaultValues(seg_class_1.cls)
    /\ data_index = RangeIndex(NumUnits)
    /\ iterations = 1
    /\ \/ /\ op = "infer"
          /\ null_approach \in InferNullApproaches \cup {"random_label"}
          /\ two_tailed \in TwoTailedVals
          /\ iterations_under_null \in 1..MaxIter
          /\ seg_class_2 = seg_class_1
          /\ counterfactual_approach = ""
       \/ /\ op = "compare"
          /\ null_approach \in CompareNullApproaches \cup {"systematic"}
          /\ two_tailed = "True"
          /\ iterations_under_null \in 1..MaxIterCompare
          /\ seg_class_1.dataType = "DataFrame"
          /\ seg_class_2 \in IndexResults
          /\ seg_class_2.dataType = seg_class_1.dataType
          /\ counterfactual_approach = ""
       \/ /\ op = "decompose"
          /\ null_approach = ""
          /\ two_tailed = "True"
          /\ iterations_under_null = 1
          /\ seg_class_2 \in IndexResults
          /\ seg_class_2.dataType = seg_class_1.dataType
          /\ seg_class_2.groups \in {DefaultGroups, <<>>}
          /\ counterfactual_approach \in CounterfactualApproaches
    /\ NotStarted

\* the call ends with an exception
Raise(e) ==
    /\ pc' = "error"
    /\ err' = e

\* np.empty(n): n slots nothing has written
Empty(n) == [k \in 1..n |-> Uninit]

(* ------------------------- _infer_segregation ------------------------- *)

\* lines 86-109: validation, point estimate, copy of the data, np.empty
InferStart ==
    /\ op = "infer"
    /\ pc = "call"
    /\ IF null_approach \notin InferNullApproaches
       THEN /\ Raise("ValueError: null_approach")
            /\ UNCHANGED <<point_estimation, est_sim, nCopies, data_1, frames>>
       ELSE IF ~IsBool(two_tailed)
       THEN /\ Raise("TypeError: two_tailed")
            /\ UNCHANGED <<point_estimation, est_sim, nCopies, data_1, frames>>
       ELSE /\ point_estimation' = InferPointEstimation(seg_class_1)
            /\ nCopies' = nCopies + 1
            /\ data_1' = DataFrameCopy("caller_1", "copy_1")
            /\ frames' = [frames EXCEPT ![data_1'] = frames["caller_1"]]
            /\ est_sim' = Empty(iterations_under_null)
            /\ pc' = "branch"
            /\ err' = err
    /\ UNCHANGED <<inputs, gini, replay, counterfactual_approach, i, p_value, pbar,
                   nWarn,
                   nBad, nDraws, nEvals, nGen, decomposition, data_2, baseline,
                   passed, simulations>>

\* np.random calls made before the loop of a single-group branch
InferDrawsBeforeLoop(na) ==
    IF na \in {"systematic", "systematic_permutation"} THEN 2 ELSE 0

\* lines 116-118 and 327-329: data["other_group_pop"] = total - group
AddsOtherGroupPop(na) == na \in {"systematic", "systematic_permutation"}

\* np.random calls made by one round: none in systematic (the draws precede
\* the loop), one multinomial per unit in the multigroup evenness round, the
\* binomial and the choice in even_permutation, one call in the others
InferDrawsPerRound(na, cls) ==
    CASE na = "systematic" -> 0
      [] na = "evenness" /\ IsMultiGroupIndex(cls) -> NumUnits
      [] na = "even_permutation" -> 2
      [] OTHER -> 1

\* the part of the chosen branch that precedes its loop: the isinstance
\* tests, the GeoDataFrame test and the multinomial draws
InferBranch ==
    /\ op = "infer"
    /\ pc = "branch"
    /\ IF IsSingleGroupIndex(seg_class_1.cls)
       THEN IF RequiresGeoDataFrame(null_approach) /\ ~IsGeoDataFrame(seg_class_1)
            THEN /\ Raise("TypeError: data is not a GeoDataFrame")
                 /\ UNCHANGED <<nDraws, frames, baseline>>
            ELSE /\ nDraws' = nDraws + InferDrawsBeforeLoop(null_approach)
                 /\ frames' =
                       IF AddsOtherGroupPop(null_approach)
                       THEN [frames EXCEPT ![data_1] =
                                WithColumn(@, "other_group_pop",
                                           Column("other", 1))]
                       ELSE frames
                 /\ baseline' = WorkingData(frames', data_1, data_2)
                 /\ pc' = "loop"
                 /\ err' = err
       ELSE IF IsMultiGroupIndex(seg_class_1.cls)
       THEN IF MultiGroupSupported(null_approach)
            THEN /\ pc' = "loop"
                 /\ err' = err
                 /\ baseline' = WorkingData(frames, data_1, data_2)
                 /\ UNCHANGED <<nDraws, frames>>
            ELSE /\ Raise("ValueError: Not implemented for MultiGroup indexes.")
                 /\ UNCHANGED <<nDraws, frames, baseline>>
       ELSE /\ pc' = "filter"
            /\ err' = err
            /\ UNCHANGED <<nDraws, frames, baseline>>
    /\ UNCHANGED <<inputs, gini, replay, counterfactual_approach, point_estimation,
                   est_sim,
                   i, p_value, pbar, nWarn, nBad, nEvals, nCopies, nGen,
                   decomposition, data_1, data_2, passed, simulations>>

\* np.random.multinomial(n, pvals) with pvals proportional to weights: how
\* n trials can fall on the categories, none on a category of probability 0
IsMultinomial(c, n, weights) ==
    /\ ColumnSum(c) = n
    /\ \A r \in 1..Len(weights) : weights[r] = 0 => c[r] = 0

Multinomial(n, weights) ==
    {c \in [1..Len(weights) -> 0..n] : IsMultinomial(c, n, weights)}

\* np.random.binomial(n, p) with p = successes / trials
Binomial(n, successes, trials) ==
    {k \in 0..n : /\ successes = 0 => k = 0
                  /\ successes = trials => k = n}

\* np.random.choice(labels, size=n, replace=True)
Choices(labels, n) == [1..n -> {labels[j] : j \in 1..Len(labels)}]

\* a column of counts as a column of a frame
Counts(col) == [r \in 1..Len(col) |-> Number(col[r])]

\* lines 135-148 and 231-244: df_aux built from the two synthetic columns,
\* with the geometry of data when data is a GeoDataFrame
SyntheticFrame(simul_group, simul_tot, frame, index) ==
    LET columns == [c \in {"simul_group", "simul_tot"} |->
                       IF c = "simul_group" THEN Counts(simul_group)
                       ELSE Counts(simul_tot)]
    IN  IF "geometry" \in DOMAIN frame
        THEN WithColumn(columns, "geometry",
                        Aligned(frame["geometry"], index, Len(simul_group)))
        ELSE columns

ShuffledGeometry_FirstDrawn(col, index, p) ==
    [j \in 1..Len(col) |-> col[LabelPosition(index, p[1] - 1)]]

\* lines 289-297: data[geometry][list(order)].reset_index()[geometry] written
\* back with assign: a lookup by label, then an assignment by label
ShuffledGeometry(col, index, p) ==
    [j \in 1..Len(col) |-> col[LabelPosition(index, p[index[j] + 1] - 1)]]

\* whether the lookup by label finds the labels 0 .. n - 1
LabelsAreRange(index) == \A k \in 1..Len(index) : HasLabel(index, k - 1)

SystematicColumns_SecondDrawAsTotal(values) ==
    LET group == values["group_pop_var"]
        total == values["total_pop_var"]
        other == [r \in 1..Len(total) |-> total[r] - group[r]]
    IN  {[simul_group |-> sim0, simul_tot |-> sim1] :
            sim0 \in Multinomial(ColumnSum(group), total),
            sim1 \in Multinomial(ColumnSum(other), total)}

\* the synthetic columns of the systematic models: multinomial draws of the
\* group and of its complement over the units, by share of total population
SystematicColumns(values) ==
    LET group == values["group_pop_var"]
        total == values["total_pop_var"]
        other == [r \in 1..Len(total) |-> total[r] - group[r]]
    IN  {[simul_group |-> sim0,
          simul_tot |-> [r \in 1..Len(total) |-> sim0[r] + sim1[r]]] :
            sim0 \in Multinomial(ColumnSum(group), total),
            sim1 \in Multinomial(ColumnSum(other), total)}

EvennessColumns_DrawsTotalToo(values) ==
    LET group == values["group_pop_var"]
        total == values["total_pop_var"]
    IN  {[simul_group |-> sim, simul_tot |-> sim] :
            sim \in {x \in [1..Len(total) -> 0..MaxPop] :
                        \A r \in 1..Len(total) :
                            x[r] \in Binomial(total[r], ColumnSum(group),
                                              ColumnSum(total))}}

\* the synthetic columns of the evenness models: one binomial draw per unit
\* at the global rate of the group, beside the observed totals
EvennessColumns(values) ==
    LET group == values["group_pop_var"]
        total == values["total_pop_var"]
    IN  {[simul_group |-> sim, simul_tot |-> total] :
            sim \in {x \in [1..Len(total) -> 0..MaxPop] :
                        \A r \in 1..Len(total) :
                            x[r] \in Binomial(total[r], ColumnSum(group),
                                              ColumnSum(total))}}

\* lines 250-260: df_simul, one multinomial draw per unit of that unit's row
\* total over the groups, at the global share of each group
MultiGroupEvenness(values) ==
    LET a == values["group_a"]
        b == values["group_b"]
        t == [r \in 1..Len(a) |-> a[r] + b[r]]
    IN  {[c \in {"group_a", "group_b"} |->
             [r \in 1..Len(a) |->
                 Number(IF c = "group_a" THEN x[r] ELSE t[r] - x[r])]] :
            x \in {y \in [1..Len(a) -> 0..(2 * MaxPop)] :
                      \A r \in 1..Len(a) :
                          /\ y[r] <= t[r]
                          /\ IsMultinomial(<<y[r], t[r] - y[r]>>, t[r],
                                           <<ColumnSum(a), ColumnSum(b)>>)}}

\* a dataset the round hands over
Handed(frame) == [err |-> "none", data |-> frame]

\* the round ends the call with an exception
Failed(e) == [err |-> e, data |-> NoFrame]

\* what one round can build to hand to the index function
RoundData(na, cls, frame, values, index) ==
    LET n == Len(index)
    IN  CASE na = "bootstrap" ->
               {IF \E k \in 1..n : sample_index[k] >= n
                THEN Failed("IndexError: positional indexers are out-of-bounds")
                ELSE Handed(TakeRows(frame,
                                     [k \in 1..n |-> sample_index[k] + 1])) :
                   sample_index \in Choices(index, n)}
          [] na = "evenness" /\ IsMultiGroupIndex(cls) ->
               {Handed(df_simul) : df_simul \in MultiGroupEvenness(values)}
          [] na = "permutation" ->
               {IF LabelsAreRange(index)
                THEN Handed(WithColumn(frame, "geometry",
                                ShuffledGeometry(frame["geometry"], index, p)))
                ELSE Failed("KeyError: not in index") : p \in RowOrders(n)}
          [] na = "systematic" ->
               {Handed(SyntheticFrame(c.simul_group, c.simul_tot, frame,
                                      index)) : c \in SystematicColumns(values)}
          [] na = "evenness" ->
               {Handed(SyntheticFrame(c.simul_group, c.simul_tot, frame,
                                      index)) : c \in EvennessColumns(values)}
          [] na = "systematic_permutation" ->
               {Handed(WithColumn(df_aux, "geometry",
                                  Permuted(df_aux["geometry"], p))) :
                   df_aux \in {SyntheticFrame(c.simul_group, c.simul_tot,
                                              frame, index) :
                                  c \in SystematicColumns(values)},
                   p \in RowOrders(n)}
          [] na = "even_permutation" ->
               {Handed(WithColumn(df_aux, "geometry",
                                  Permuted(df_aux["geometry"], p))) :
                   df_aux \in {SyntheticFrame(c.simul_group, c.simul_tot,
                                              frame, index) :
                                  c \in EvennessColumns(values)},
                   p \in RowOrders(n)}

\* the column names a round passes to the index function
RoundColumns(na, cls) ==
    IF IsMultiGroupIndex(cls) THEN <<"group_a", "group_b">>
    ELSE IF na \in {"bootstrap", "permutation"}
    THEN <<"group_pop_var", "total_pop_var">>
    ELSE <<"simul_group", "simul_tot">>

\* the first half of one iteration of the loop of the chosen branch: the
\* round's dataset is built and seg_class._function is called with it
InferRoundCall ==
    /\ op = "infer"
    /\ pc = "loop"
    /\ \E out \in RoundData(null_approach, seg_class_1.cls, frames[data_1],
                            data_values, data_index) :
          IF out.err # "none"
          THEN /\ Raise(out.err)
               /\ UNCHANGED <<data_1, frames, passed, nEvals>>
          ELSE /\ passed' = << [data    |-> out.data,
                                columns |-> RoundColumns(null_approach,
                                                         seg_class_1.cls)] >>
               /\ IF null_approach = "permutation"
                  THEN /\ data_1' = "new_1"
                       /\ frames' = Release([frames EXCEPT !["new_1"] = out.data],
                                            {"new_1"})
                  ELSE UNCHANGED <<data_1, frames>>
               /\ nEvals' = nEvals + 1
               /\ pc' = "called"
               /\ err' = err
    /\ nDraws' = nDraws + InferDrawsPerRound(null_approach, seg_class_1.cls)
    /\ UNCHANGED <<inputs, gini, replay, counterfactual_approach, point_estimation,
                   est_sim, i, p_value, pbar, nWarn, nBad, nCopies, nGen,
                   decomposition, data_2, baseline, simulations>>

\* the second half: the function returns and its statistic is stored in
\* Estimates_Stars[i]
InferRoundStore ==
    /\ op = "infer"
    /\ pc = "called"
    /\ \E s \in StatVals :
          /\ est_sim' = [est_sim EXCEPT ![i + 1] = s]
          /\ nBad' = nBad + (IF s[1] = "fin" THEN 0 ELSE 1)
    /\ passed' = <<>>
    /\ pc' = "stored"
    /\ UNCHANGED <<inputs, gini, replay, counterfactual_approach, err,
                   point_estimation, i, p_value, pbar, nWarn, counters,
                   decomposition, data_1, data_2, frames, baseline,
                   simulations>>

\* pbar.set_description(...); pbar.update(1), and the loop goes on
InferProgress ==
    /\ op = "infer"
    /\ pc = "stored"
    /\ pbar' = pbar + 1
    /\ i' = i + 1
    /\ pc' = IF i + 1 = iterations_under_null THEN "filter" ELSE "loop"
    /\ UNCHANGED <<inputs, gini, replay, counterfactual_approach, err,
                   point_estimation, est_sim, p_value, nWarn, nBad, counters,
                   decomposition, memory>>

\* the slots of arr that no round wrote
Unwritten(arr) == {k \in 1..Len(arr) : arr[k] = Uninit}

\* the array as the final block reads it: a slot no round wrote holds
\* whatever the allocation left there
ReadArray(arr) ==
    {[k \in 1..Len(arr) |-> IF k \in Unwritten(arr) THEN g[k] ELSE arr[k]] :
        g \in [Unwritten(arr) -> StatVals]}

\* lines 426-432 and 811-815: the entries of a that are kept
Survivors(a) == IF AnyBad(a) THEN DropBad(a) ELSE a

\* lines 434-439: the p-value of the kept entries
InferPValue(kept) ==
    IF two_tailed = "False"
    THEN OneTailedPValue(kept, point_estimation, iterations_under_null)
    ELSE TwoTailedPValue(kept, point_estimation)

\* lines 425-441 on the array a: what the call returns
InferOutcome(a) ==
    [est_sim |-> Survivors(a), p_value |-> InferPValue(Survivors(a))]

\* lines 425-441 when Estimates_Stars reads as a: drop NaN/inf with one
\* warning, compute the p-value, return
InferFinishReading(a) ==
    /\ op = "infer"
    /\ pc = "filter"
    /\ nWarn' = nWarn + (IF AnyBad(a) THEN 1 ELSE 0)
    /\ est_sim' = Survivors(a)
    /\ p_value' = InferPValue(est_sim')
    /\ data_1' = "none"
    /\ data_2' = "none"
    /\ frames' = Release(frames, {})
    /\ passed' = <<>>
    /\ simulations' = <<>>
    /\ pc' = "done"
    /\ UNCHANGED <<inputs, gini, counterfactual_approach, err, point_estimation, i,
                   pbar, nBad, counters, decomposition, baseline>>

\* lines 425-441: the end of the call
InferFinish ==
    /\ \E a \in ReadArray(est_sim) : InferFinishReading(a)
    /\ UNCHANGED replay

\* the end of the call, and of a second run of it that was given the same
\* inputs and the same random draws: the rounds of both wrote the same
\* slots, each run reads its own allocation
InferFinishTwice ==
    /\ \E a \in ReadArray(est_sim) : InferFinishReading(a)
    /\ \E b \in ReadArray(est_sim) : replay' = <<InferOutcome(b)>>

(* ------------------------ _compare_segregation ------------------------ *)

\* lines 592-615: validation, type test, point estimate, copies, np.empty
CompareStart ==
    /\ op = "compare"
    /\ pc = "call"
    /\ IF null_approach \notin CompareNullApproaches
       THEN /\ Raise("ValueError: null_approach")
            /\ UNCHANGED <<point_estimation, est_sim, nCopies, data_1, data_2,
                           frames>>
       ELSE IF ~SameType(seg_class_1, seg_class_2)
       THEN /\ Raise("TypeError: must be the same type/class")
            /\ UNCHANGED <<point_estimation, est_sim, nCopies, data_1, data_2,
                           frames>>
       ELSE /\ point_estimation' =
                  ComparePointEstimation(seg_class_1, seg_class_2)
            /\ nCopies' = nCopies + 2
            /\ data_1' = DataFrameCopy("caller_1", "copy_1")
            /\ data_2' = DataFrameCopy("caller_2", "copy_2")
            /\ frames' = [frames EXCEPT ![data_1'] = frames["caller_1"],
                                        ![data_2'] = frames["caller_2"]]
            /\ est_sim' = Empty(iterations_under_null)
            /\ pc' = "branch"
            /\ err' = err
    /\ UNCHANGED <<inputs, gini, replay, counterfactual_approach, i, p_value, pbar,
                   nWarn,
                   nBad, nDraws, nEvals, nGen, decomposition, baseline, passed,
                   simulations>>

GeneratorCallsInRound_One(na) == 1

\* calls of _generate_counterfactual inside the loop (lines 758-808): none
GeneratorCallsInRound(na) == 0

\* lines 622-623: data_k["grouping_variable"] = "Group_k", in place
Labelled(heap, d1, d2) ==
    [heap EXCEPT
        ![d1] = WithColumn(@, "grouping_variable", Constant("Group_1", Rows(1))),
        ![d2] = WithColumn(@, "grouping_variable", Constant("Group_2", Rows(2)))]

\* lines 636-637 and 644-645: the three columns kept, under common names
PoolColumns(frame) ==
    [c \in {"group", "total", "grouping_variable"} |->
        frame[CASE c = "group" -> "group_pop_var"
                [] c = "total" -> "total_pop_var"
                [] OTHER -> c]]

\* lines 625-648: the pool of two single-group datasets
SingleGroupPool(heap, d1, d2) ==
    LET r == [heap EXCEPT
                 ![d1] = Rounded(@, {"group_pop_var", "total_pop_var"}),
                 ![d2] = Rounded(@, {"group_pop_var", "total_pop_var"})]
        n == [r EXCEPT !["new_1"] = PoolColumns(r[d1]),
                       !["new_2"] = PoolColumns(r[d2])]
    IN  Release([n EXCEPT !["stacked"] = Concat(n["new_1"], n["new_2"])],
                {"new_1", "new_2", "stacked"})

\* the first position of groups_list that names no column of the frame, or
\* one past its end
FirstMissing(groups_list, frame) ==
    LET missing == {k \in 1..Len(groups_list) :
                       groups_list[k] \notin DOMAIN frame}
    IN  IF missing = {} THEN Len(groups_list) + 1
        ELSE CHOOSE k \in missing : \A j \in missing : k <= j

\* lines 687-689: the columns groups_list names are rounded in place, in data_1
\* then in data_2, one after the other, as far as data_2 has them
RoundedGroups(heap, d1, d2, groups_list) ==
    LET m == FirstMissing(groups_list, heap[d2])
    IN  [heap EXCEPT
            ![d1] = Rounded(@, {groups_list[k] :
                                   k \in {j \in 1..Len(groups_list) : j <= m}}),
            ![d2] = Rounded(@, {groups_list[k] : k \in 1..(m - 1)})]

\* lines 683-694: the pool of two multi-group datasets
MultiGroupPool(heap, d1, d2) ==
    LET r == RoundedGroups(heap, d1, d2, DefaultGroups)
    IN  [r EXCEPT !["stacked"] = Concat(r[d1], r[d2])]

SubstitutesTotal_Always(na) == TRUE

\* line 751: the approaches that replace the total population column
SubstitutesTotal(na) ==
    na \in {"counterfactual_share", "counterfactual_dual_composition"}

\* lines 751-757: data_k[total_pop_var] = counterfac_dfk["counterfactual_total_pop"]
WithCounterfactualTotals(heap, d1, d2, na) ==
    IF SubstitutesTotal(na)
    THEN [heap EXCEPT
             ![d1] = WithColumn(@, "total_pop_var", Column("cf_total", 1)),
             ![d2] = WithColumn(@, "total_pop_var", Column("cf_total", 2))]
    ELSE heap

\* the part of the chosen branch that precedes its loop
CompareBranch ==
    /\ op = "compare"
    /\ pc = "branch"
    /\ IF null_approach = "random_label"
       THEN /\ IF IsSingleGroupIndex(seg_class_1.cls)
               THEN /\ data_1' = "new_1"
                    /\ data_2' = "new_2"
                    /\ frames' = SingleGroupPool(
                                     Labelled(frames, data_1, data_2),
                                     data_1, data_2)
                    /\ baseline' = WorkingData(frames', data_1', data_2')
                    /\ pc' = "loop"
                    /\ err' = err
               ELSE IF IsMultiGroupIndex(seg_class_1.cls)
               THEN IF FirstMissing(seg_class_1.groups, frames[data_2])
                           <= Len(seg_class_1.groups)
                    THEN /\ Raise("KeyError: column")
                         /\ frames' = RoundedGroups(
                                          Labelled(frames, data_1, data_2),
                                          data_1, data_2, seg_class_1.groups)
                         /\ UNCHANGED <<data_1, data_2, baseline>>
                    ELSE IF seg_class_1.groups # seg_class_2.groups
                    THEN /\ Raise("ValueError: MultiGroup groups should be the same")
                         /\ frames' = RoundedGroups(
                                          Labelled(frames, data_1, data_2),
                                          data_1, data_2, seg_class_1.groups)
                         /\ UNCHANGED <<data_1, data_2, baseline>>
                    ELSE /\ frames' = MultiGroupPool(
                                          Labelled(frames, data_1, data_2),
                                          data_1, data_2)
                         /\ baseline' = WorkingData(frames', data_1, data_2)
                         /\ pc' = "loop"
                         /\ err' = err
                         /\ UNCHANGED <<data_1, data_2>>
               ELSE /\ frames' = Labelled(frames, data_1, data_2)
                    /\ pc' = "filter"
                    /\ err' = err
                    /\ UNCHANGED <<data_1, data_2, baseline>>
            /\ UNCHANGED <<nGen, counterfactual_approach>>
       ELSE IF IsMultiGroupIndex(seg_class_1.cls)
       THEN /\ null_approach \in CounterfactualNullApproaches
            /\ Raise("ValueError: Not implemented for MultiGroup indexes.")
            /\ UNCHANGED <<nGen, counterfactual_approach, data_1, data_2,
                           frames, baseline>>
       ELSE /\ null_approach \in CounterfactualNullApproaches
            /\ counterfactual_approach' = InternalArg(null_approach)
            /\ nGen' = nGen + 1
            /\ frames' = WithCounterfactualTotals(frames, data_1, data_2,
                                                  null_approach)
            /\ baseline' = WorkingData(frames', data_1, data_2)
            /\ pc' = "loop"
            /\ err' = err
            /\ UNCHANGED <<data_1, data_2>>
    /\ UNCHANGED <<inputs, gini, replay, point_estimation, est_sim, i, p_value,
                   pbar, nWarn,
                   nBad, nDraws, nEvals, nCopies, decomposition, passed,
                   simulations>>

LabelShuffles_WithReplacement(col) ==
    [1..Len(col) -> {col[k] : k \in 1..Len(col)}]

\* how many rows of col hold the value v
Occurrences(col, v) == Cardinality({k \in 1..Len(col) : col[k] = v})

\* np.random.permutation(col): the orders the values of col can come out in,
\* that is, the columns holding each value as often as col does
LabelShuffles(col) ==
    {c \in [1..Len(col) -> {col[k] : k \in 1..Len(col)}] :
        \A v \in {col[k] : k \in 1..Len(col)} :
            Occurrences(c, v) = Occurrences(col, v)}

\* the columns the index function is told to read
PassedColumns(cls) ==
    IF IsMultiGroupIndex(cls) THEN <<"group_a", "group_b">>
    ELSE <<"group", "total">>

\* lines 651-660 and 699-708: a round of random_label shuffles the labels
\* of the pool in place
RandomLabelShuffle ==
    /\ op = "compare"
    /\ pc = "loop"
    /\ null_approach = "random_label"
    /\ i < iterations_under_null
    /\ \E labels \in LabelShuffles(frames["stacked"]["grouping_variable"]) :
          frames' = [frames EXCEPT !["stacked"] =
                        WithColumn(@, "grouping_variable", labels)]
    /\ nDraws' = nDraws + 1
    /\ passed' = <<>>
    /\ pc' = "shuffled"
    /\ UNCHANGED <<inputs, gini, replay, counterfactual_approach, err,
                   point_estimation,
                   est_sim, i, p_value, pbar, nWarn, nBad, nEvals, nCopies,
                   nGen, decomposition, data_1, data_2, baseline, simulations>>

\* the rows of the pool that carry the label of dataset d
Partition(stacked_data, d) ==
    TakeRows(stacked_data,
             Positions(stacked_data["grouping_variable"],
                       Cell(IF d = 1 THEN "Group_1" ELSE "Group_2", 0, 0)))

\* lines 661-674 and 709-716: the two evaluations of the round and its entry
\* of est_sim
RandomLabelEvaluate ==
    /\ op = "compare"
    /\ pc = "shuffled"
    /\ passed' = << [data    |-> Partition(frames["stacked"], 1),
                     columns |-> PassedColumns(seg_class_1.cls)],
                    [data    |-> Partition(frames["stacked"], 2),
                     columns |-> PassedColumns(seg_class_2.cls)] >>
    /\ \E simulations_1 \in StatVals, simulations_2 \in StatVals :
          LET d == FSub(simulations_1, simulations_2) IN
          /\ simulations' = <<simulations_1, simulations_2>>
          /\ est_sim' = [est_sim EXCEPT ![i + 1] = d]
          /\ nBad' = nBad + (IF d[1] = "fin" THEN 0 ELSE 1)
    /\ nEvals' = nEvals + 2
    /\ nGen' = nGen + GeneratorCallsInRound(null_approach)
    /\ pc' = "progress"
    /\ UNCHANGED <<inputs, gini, replay, counterfactual_approach, err,
                   point_estimation, i,
                   p_value, pbar, nWarn, nDraws, nCopies, decomposition,
                   data_1, data_2, frames, baseline>>

\* np.where(cond, a, b), row by row
Where(cond, a, b) == [r \in 1..Len(cond) |-> IF cond[r] THEN a[r] ELSE b[r]]

\* lines 761-772 and 781-792: the frame d once fair_coin and
\* test_group_pop_var have been written into it; above[r] is fair_coin > 0.5
WithTestColumn(frame, d, above) ==
    WithColumn(
        WithColumn(frame, "fair_coin",
                   [r \in 1..Rows(d) |->
                       Cell(IF above[r] THEN "above_half" ELSE "below_half",
                            d, r)]),
        "test_group_pop_var",
        Where(above, frame["group_pop_var"], Column("cf_group", d)))

\* lines 761-778: a counterfactual round flips dataset 1's coins, writes the
\* test column in place and evaluates the frame without the observed column
CounterfactualFirst ==
    /\ op = "compare"
    /\ pc = "loop"
    /\ null_approach \in CounterfactualNullApproaches
    /\ i < iterations_under_null
    /\ \E above \in [1..Rows(1) -> BOOLEAN] :
          /\ frames' = [frames EXCEPT ![data_1] = WithTestColumn(@, 1, above)]
          /\ passed' = << [data    |-> Drop(frames'[data_1], {"group_pop_var"}),
                           columns |-> <<"test_group_pop_var",
                                         "total_pop_var">>] >>
    /\ \E simulations_1 \in StatVals : simulations' = <<simulations_1>>
    /\ nDraws' = nDraws + 1
    /\ nEvals' = nEvals + 1
    /\ pc' = "called_1"
    /\ UNCHANGED <<inputs, gini, replay, counterfactual_approach, err,
                   point_estimation,
                   est_sim, i, p_value, pbar, nWarn, nBad, nCopies, nGen,
                   decomposition, data_1, data_2, baseline>>

\* line 779: data_1 = data_1.drop(["fair_coin", "test_group_pop_var"], axis=1)
CounterfactualFirstDrop ==
    /\ op = "compare"
    /\ pc = "called_1"
    /\ data_1' = "new_1"
    /\ frames' = Release([frames EXCEPT !["new_1"] =
                             Drop(frames[data_1],
                                  {"fair_coin", "test_group_pop_var"})],
                         {"new_1", data_2})
    /\ passed' = <<>>
    /\ pc' = "dropped_1"
    /\ UNCHANGED <<inputs, gini, replay, counterfactual_approach, err,
                   point_estimation,
                   est_sim, i, p_value, pbar, nWarn, nBad, counters,
                   decomposition, data_2, baseline, simulations>>

\* lines 781-796: the same for dataset 2
CounterfactualSecond ==
    /\ op = "compare"
    /\ pc = "dropped_1"
    /\ \E above \in [1..Rows(2) -> BOOLEAN] :
          /\ frames' = [frames EXCEPT ![data_2] = WithTestColumn(@, 2, above)]
          /\ passed' = << [data    |-> Drop(frames'[data_2], {"group_pop_var"}),
                           columns |-> <<"test_group_pop_var",
                                         "total_pop_var">>] >>
    /\ \E simulations_2 \in StatVals :
          simulations' = <<simulations[1], simulations_2>>
    /\ nDraws' = nDraws + 1
    /\ nEvals' = nEvals + 1
    /\ pc' = "called_2"
    /\ UNCHANGED <<inputs, gini, replay, counterfactual_approach, err,
                   point_estimation,
                   est_sim, i, p_value, pbar, nWarn, nBad, nCopies, nGen,
                   decomposition, data_1, data_2, baseline>>

\* lines 799-801: data_2 = data_2.drop(...) and the round's entry of est_sim
CounterfactualSecondDrop ==
    /\ op = "compare"
    /\ pc = "called_2"
    /\ data_2' = "new_2"
    /\ frames' = Release([frames EXCEPT !["new_2"] =
                             Drop(frames[data_2],
                                  {"fair_coin", "test_group_pop_var"})],
                         {data_1, "new_2"})
    /\ passed' = <<>>
    /\ LET d == FSub(simulations[1], simulations[2]) IN
          /\ est_sim' = [est_sim EXCEPT ![i + 1] = d]
          /\ nBad' = nBad + (IF d[1] = "fin" THEN 0 ELSE 1)
    /\ nGen' = nGen + GeneratorCallsInRound(null_approach)
    /\ pc' = "progress"
    /\ UNCHANGED <<inputs, gini, replay, counterfactual_approach, err,
                   point_estimation, i,
                   p_value, pbar, nWarn, nDraws, nEvals, nCopies,
                   decomposition, data_1, baseline, simulations>>

\* lines 674-681, 716-723 and 802-808: the progress report that ends a round
\* of either branch, and the step of the for loop
CompareProgress ==
    /\ op = "compare"
    /\ pc = "progress"
    /\ pbar' = pbar + 1
    /\ i' = i + 1
    /\ passed' = <<>>
    /\ simulations' = <<>>
    /\ pc' = IF i + 1 = iterations_under_null THEN "filter" ELSE "loop"
    /\ UNCHANGED <<inputs, gini, replay, counterfactual_approach, err,
                   point_estimation,
                   est_sim, p_value, nWarn, nBad, counters, decomposition,
                   data_1, data_2, frames, baseline>>

\* lines 810-821 on the array a: the surviving estimates and the p-value
CompareOutcome(a) ==
    [est_sim |-> Survivors(a),
     p_value |-> TwoTailedPValue(Survivors(a), point_estimation)]

\* lines 810-823 when est_sim reads as a: drop NaN/inf with one warning,
\* two-tailed p-value, return
CompareFinishReading(a) ==
    /\ op = "compare"
    /\ pc = "filter"
    /\ nWarn' = nWarn + (IF AnyBad(a) THEN 1 ELSE 0)
    /\ est_sim' = Survivors(a)
    /\ p_value' = TwoTailedPValue(est_sim', point_estimation)
    /\ data_1' = "none"
    /\ data_2' = "none"
    /\ frames' = Release(frames, {})
    /\ passed' = <<>>
    /\ simulations' = <<>>
    /\ pc' = "done"
    /\ UNCHANGED <<inputs, gini, counterfactual_approach, err, point_estimation, i,
                   pbar, nBad, counters, decomposition, baseline>>

\* lines 810-823: the end of the call
CompareFinish ==
    /\ \E a \in ReadArray(est_sim) : CompareFinishReading(a)
    /\ UNCHANGED replay

\* the end of the call and of a second run given the same inputs and draws
CompareFinishTwice ==
    /\ \E a \in ReadArray(est_sim) : CompareFinishReading(a)
    /\ \E b \in ReadArray(est_sim) : replay' = <<CompareOutcome(b)>>

(* ----------------------- _decompose_segregation ----------------------- *)

\* lines 51-54: copies of the two core datasets, then the assertion
DecomposeStart ==
    /\ op = "decompose"
    /\ pc = "call"
    /\ nCopies' = nCopies + 2
    /\ data_1' = DataFrameCopy("caller_1", "copy_1")
    /\ data_2' = DataFrameCopy("caller_2", "copy_2")
    /\ frames' = [frames EXCEPT ![data_1'] = frames["caller_1"],
                                ![data_2'] = frames["caller_2"]]
    /\ IF ~SameFunction(seg_class_1, seg_class_2)
       THEN Raise("AssertionError: Segregation indices must be of the same type")
       ELSE /\ pc' = "generate"
            /\ err' = err
    /\ UNCHANGED <<inputs, gini, replay, counterfactual_approach, point_estimation,
                   est_sim,
                   i, p_value, pbar, nWarn, nBad, nDraws, nEvals, nGen,
                   decomposition, baseline, passed, simulations>>

\* lines 56-61: the counterfactual datasets
DecomposeGenerate ==
    /\ op = "decompose"
    /\ pc = "generate"
    /\ nGen' = nGen + 1
    /\ pc' = "evaluate"
    /\ UNCHANGED <<inputs, gini, replay, counterfactual_approach, err,
                   point_estimation,
                   est_sim, i, p_value, pbar, nWarn, nBad, nDraws, nEvals,
                   nCopies, decomposition, memory>>

CounterfactualEvaluations_Swapped ==
    << [data |-> "counterfac_df1", group |-> "counterfactual_group_pop",
        total |-> "counterfactual_total_pop", into |-> "s2_a1"],
       [data |-> "counterfac_df2", group |-> "counterfactual_group_pop",
        total |-> "counterfactual_total_pop", into |-> "s1_a2"] >>

\* lines 72-77: the two calls of seg_func, in order, and where each result goes
CounterfactualEvaluations ==
    << [data |-> "counterfac_df1", group |-> "counterfactual_group_pop",
        total |-> "counterfactual_total_pop", into |-> "s1_a2"],
       [data |-> "counterfac_df2", group |-> "counterfactual_group_pop",
        total |-> "counterfactual_total_pop", into |-> "s2_a1"] >>

\* the positional parameters of the formula an index result stores:
\* _modified_gini(data, group_pop_var, total_pop_var, iterations=500),
\* _multi_dissim(data, groups)
PositionalParameters(f) == IF f = "_multi_dissim" THEN 2 ELSE 3

\* lines 63-77: the four cross statistics; seg_func is called with a dataset
\* and two column names, which a formula of two parameters rejects
DecomposeEvaluate ==
    /\ op = "decompose"
    /\ pc = "evaluate"
    /\ IF PositionalParameters(FunctionOf(seg_class_1.cls)) < 3
       THEN /\ Raise("TypeError: positional arguments")
            /\ UNCHANGED <<G, calls, nEvals>>
       ELSE /\ \E r \in [1..Len(CounterfactualEvaluations) -> DecomposeStatVals] :
                  /\ calls' = [k \in 1..Len(CounterfactualEvaluations) |->
                                  [data   |-> CounterfactualEvaluations[k].data,
                                   group  |-> CounterfactualEvaluations[k].group,
                                   total  |-> CounterfactualEvaluations[k].total,
                                   result |-> r[k]]]
                  /\ G' = [c \in {"s1_a1", "s1_a2", "s2_a1", "s2_a2"} |->
                              IF c = "s1_a1" THEN seg_class_1.statistic
                              ELSE IF c = "s2_a2" THEN seg_class_2.statistic
                              ELSE r[CHOOSE k \in 1..Len(CounterfactualEvaluations) :
                                         CounterfactualEvaluations[k].into = c]]
            /\ nEvals' = nEvals + Len(CounterfactualEvaluations)
            /\ pc' = "components"
            /\ err' = err
    /\ UNCHANGED <<inputs, gini, replay, counterfactual_approach,
                   point_estimation,
                   est_sim, i, p_value, pbar, nWarn, nBad, nDraws, nCopies,
                   nGen, C_S, C_A, memory>>

\* 1 / 2 * x, kept as the float x it halves
Half(x) == <<"half", x>>

SpatialComponent_AttributePairs(g) ==
    Half(FSub(FAdd(FSub(g.s1_a1, g.s1_a2), g.s2_a1), g.s2_a2))

\* line 80: C_S = 1 / 2 * (G_S1_A1 - G_S2_A1 + G_S1_A2 - G_S2_A2), evaluated
\* left to right
SpatialComponent(g) ==
    Half(FSub(FAdd(FSub(g.s1_a1, g.s2_a1), g.s1_a2), g.s2_a2))

AttributeComponent_SpatialAgain(g) ==
    Half(FSub(FAdd(FSub(g.s1_a1, g.s2_a1), g.s1_a2), g.s2_a2))

\* line 83: C_A = 1 / 2 * (G_S1_A1 - G_S1_A2 + G_S2_A1 - G_S2_A2)
AttributeComponent(g) ==
    Half(FSub(FAdd(FSub(g.s1_a1, g.s1_a2), g.s2_a1), g.s2_a2))

\* lines 80-90: the two Shapley components
DecomposeFinish ==
    /\ op = "decompose"
    /\ pc = "components"
    /\ C_S' = SpatialComponent(G)
    /\ C_A' = AttributeComponent(G)
    /\ pc' = "done"
    /\ UNCHANGED <<inputs, gini, replay, counterfactual_approach, err,
                   point_estimation,
                   est_sim, i, p_value, pbar, nWarn, nBad, counters, G, calls,
                   memory>>

(* --------------------- ModifiedGini, _modified_gini ------------------- *)

\* the statistic the call-th call of _gini_seg of this run returned: the
\* formula is a pure function of the dataset it is given
GiniSeg(call) == <<"gini_seg", call>>

\* the number a cell of a population column holds
ValueOf(cell) ==
    CASE cell[1] = "int" -> cell[2]
      [] cell[1] = "group" -> data_values["group_pop_var"][cell[3]]
      [] cell[1] = "total" -> data_values["total_pop_var"][cell[3]]

\* the numbers a population column holds
ValuesOf(col) == [r \in 1..Len(col) |-> ValueOf(col[r])]

\* lines 41-57: the copy, the observed index, the null rate and the draws
\* est[unit] of every unit; column i of the draws is read by iteration i
ModifiedGiniStart ==
    /\ op = "modified_gini"
    /\ pc = "call"
    /\ nCopies' = nCopies + 1
    /\ data_1' = DataFrameCopy(self_data, "copy_1")
    /\ frames' = [frames EXCEPT ![data_1'] = frames[self_data]]
    /\ D' = GiniSeg(0)
    /\ Ds' = Empty(iterations)
    /\ nEvals' = nEvals + 1
    /\ nDraws' = nDraws + NumUnits
    /\ pc' = "loop"
    /\ UNCHANGED <<inputs, iterations, Dct, core_data, self_data, replay,
                   counterfactual_approach, err, point_estimation, est_sim, i,
                   p_value, pbar, nWarn, nBad, nGen, decomposition, data_2,
                   baseline, passed, simulations>>

\* what column i of the draws can hold: one binomial draw per unit, of that
\* unit's total at the rate of the group in the whole population
SimulatedGroup(x, t) ==
    {sim \in [1..Len(t) -> 0..MaxPop] :
        \A r \in 1..Len(t) :
            sim[r] \in Binomial(t[r], ColumnSum(x), ColumnSum(t))}

\* line 62: df[i].values as the group population column
SimulatedColumn(frame, sim) == Counts(sim)

\* lines 61-64: one iteration: the group population column of data is
\* overwritten with the draws of this iteration, and the index of the result
\* is stored
ModifiedGiniRound ==
    /\ op = "modified_gini"
    /\ pc = "loop"
    /\ i < iterations
    /\ \E sim \in SimulatedGroup(data_values["group_pop_var"],
                                 data_values["total_pop_var"]) :
          frames' = [frames EXCEPT ![data_1] =
                        WithColumn(@, "group_pop_var",
                                   SimulatedColumn(@, sim))]
    /\ Ds' = [Ds EXCEPT ![i + 1] = GiniSeg(i + 1)]
    /\ nEvals' = nEvals + 1
    /\ i' = i + 1
    /\ UNCHANGED <<inputs, iterations, D, Dct, core_data, self_data, replay,
                   counterfactual_approach, err, point_estimation, est_sim,
                   pc, p_value, pbar, nWarn, nBad, nDraws, nCopies, nGen,
                   decomposition, data_1, data_2, baseline, passed,
                   simulations>>

\* lines 66-79: the statistic from D and the mean of Ds, and the core data:
\* the population columns of data, with its geometry if it has one
ModifiedGiniReturn ==
    /\ op = "modified_gini"
    /\ pc = "loop"
    /\ i = iterations
    /\ Dct' = <<"Dct", D, Ds>>
    /\ core_data' = "new_1"
    /\ frames' = Release([frames EXCEPT !["new_1"] = frames[data_1]], {"new_1"})
    /\ data_1' = "none"
    /\ pc' = "returned"
    /\ UNCHANGED <<inputs, iterations, D, Ds, self_data, replay,
                   counterfactual_approach, err, point_estimation, est_sim, i,
                   p_value, pbar, nWarn, nBad, counters, decomposition, data_2,
                   baseline, passed, simulations>>

\* lines 143-145: self.statistic = aux[0]; self.data = aux[1]
ModifiedGiniInit ==
    /\ op = "modified_gini"
    /\ pc = "returned"
    /\ self_data' = core_data
    /\ point_estimation' = Dct
    /\ pc' = "done"
    /\ UNCHANGED <<inputs, iterations, D, Ds, Dct, core_data, replay,
                   counterfactual_approach, err, est_sim, i, p_value, pbar,
                   nWarn, nBad, counters, decomposition, memory>>


Next ==
    \/ InferStart
    \/ InferBranch
    \/ InferRoundCall
    \/ InferRoundStore
    \/ InferProgress
    \/ InferFinish
    \/ CompareStart
    \/ CompareBranch
    \/ RandomLabelShuffle
    \/ RandomLabelEvaluate
    \/ CounterfactualFirst
    \/ CounterfactualFirstDrop
    \/ CounterfactualSecond
    \/ CounterfactualSecondDrop
    \/ CompareProgress
    \/ CompareFinish
    \/ DecomposeStart
    \/ DecomposeGenerate
    \/ DecomposeEvaluate
    \/ DecomposeFinish

Spec == Init /\ [][Next]_vars

\* two runs of one engine call on the same inputs and the same random draws
InitTwice ==
    /\ Init
    /\ op \in {"infer", "compare"}
    /\ iterations_under_null <= MaxIterCompare

NextTwice ==
    \/ InferStart
    \/ InferBranch
    \/ InferRoundCall
    \/ InferRoundStore
    \/ InferProgress
    \/ InferFinishTwice
    \/ CompareStart
    \/ CompareBranch
    \/ RandomLabelShuffle
    \/ RandomLabelEvaluate
    \/ CounterfactualFirst
    \/ CounterfactualFirstDrop
    \/ CounterfactualSecond
    \/ CounterfactualSecondDrop
    \/ CompareProgress
    \/ CompareFinishTwice

SpecTwice == InitTwice /\ [][NextTwice]_vars

(* ------------------------- claims: vocabulary ------------------------- *)

\* a call of one of the two inference engines has returned
EngineReturned == pc = "done" /\ op \in {"infer", "compare"}

\* every requested round has been executed
AllRoundsRan == i = iterations_under_null

\* the call computes a two-tailed p-value
TwoTailedCall == op = "compare" \/ (op = "infer" /\ two_tailed = "True")

\* entries of the returned null sample strictly below / above / equal to
\* the point estimate, counted on the finite values themselves
BelowCount ==
    Cardinality({k \in 1..Len(est_sim) :
        est_sim[k][1] = "fin" /\ est_sim[k][2] < point_estimation[2]})

AboveCount ==
    Cardinality({k \in 1..Len(est_sim) :
        est_sim[k][1] = "fin" /\ est_sim[k][2] > point_estimation[2]})

TieCount ==
    Cardinality({k \in 1..Len(est_sim) :
        est_sim[k][1] = "fin" /\ est_sim[k][2] = point_estimation[2]})

SmallerTail == IF BelowCount <= AboveCount THEN BelowCount ELSE AboveCount

\* the float p equals the quotient a / b
IsQuotient(p, a, b) == p[1] = "frac" /\ b > 0 /\ p[2] * b = a * p[3]

\* the float p is a number with 0 <= p <= 1
InUnitInterval(p) == p[1] = "frac" /\ p[3] > 0 /\ 0 <= p[2] /\ p[2] <= p[3]

\* nothing of the simulation has happened
NoSimulationWork == nDraws = 0 /\ nEvals = 0 /\ i = 0

(* ------------------------------- claims ------------------------------- *)

\* C1: every call of either engine that returns a result returns a p-value
\* p with 0 <= p <= 1, whatever the point estimate and whatever the values
\* and the number of surviving null-sample entries.
C1_PValueInUnitInterval ==
    (EngineReturned /\ AllRoundsRan) => InUnitInterval(p_value)

\* C2: the two-tailed p-value of the single-sample engine and the p-value of
\* the two-sample engine equal 2 * min(#entries strictly below the point
\* estimate, #entries strictly above it) / #surviving entries; ties count in
\* neither tail.
C2_TwoTailedFormula ==
    (EngineReturned /\ TwoTailedCall /\ Len(est_sim) > 0)
        => IsQuotient(p_value, 2 * SmallerTail, Len(est_sim))

\* C2 witness: a two-tailed call returned a sample holding an entry below,
\* an entry above and an entry equal to the point estimate.
C2_Witness ==
    /\ EngineReturned
    /\ TwoTailedCall
    /\ AllRoundsRan
    /\ BelowCount >= 1
    /\ AboveCount >= 1
    /\ TieCount >= 1

\* C3: with two_tailed = False the single-sample engine returns
\* (#surviving entries strictly above the point estimate) / iterations.
C3_OneTailedFormula ==
    (pc = "done" /\ op = "infer" /\ two_tailed = "False")
        => IsQuotient(p_value, AboveCount, iterations_under_null)

\* C3 witness: a one-tailed call returned after a round was dropped, with a
\* surviving entry above the point estimate.
C3_Witness ==
    /\ pc = "done"
    /\ op = "infer"
    /\ two_tailed = "False"
    /\ AllRoundsRan
    /\ nBad >= 1
    /\ AboveCount >= 1

\* C4: when at least one round was dropped as NaN/infinite, the p-value of
\* either engine, one-tailed as well as two-tailed, is the tail count divided
\* by the number of surviving entries, not by the requested iteration count.
C4_DenominatorIsSurvivors ==
    (EngineReturned /\ AllRoundsRan /\ nBad >= 1 /\ Len(est_sim) > 0)
        => IsQuotient(p_value,
                      IF TwoTailedCall THEN 2 * SmallerTail ELSE AboveCount,
                      Len(est_sim))

\* C5: if k rounds produced a NaN or infinite statistic, the returned null
\* sample holds no NaN/infinite entry, has length iterations - k, and the call
\* emitted exactly one degeneracy warning when k >= 1 and none when k = 0.
C5_DropAndWarnOnce ==
    /\ nWarn <= 1
    /\ (EngineReturned /\ AllRoundsRan)
          => /\ \A k \in 1..Len(est_sim) : est_sim[k][1] = "fin"
             /\ Len(est_sim) = iterations_under_null - nBad
             /\ nWarn = (IF nBad >= 1 THEN 1 ELSE 0)

\* C5 witness: a call returned after two rounds were dropped, one of them
\* infinite, with a surviving entry left.
C5_Witness ==
    /\ EngineReturned
    /\ AllRoundsRan
    /\ nBad >= 2
    /\ Len(est_sim) >= 1
    /\ nWarn = 1

\* C6: if every round yields a NaN/infinite statistic, the call ends in a
\* fatal error of the p-value computation; it never returns a result.
C6_AllDroppedIsFatal ==
    (AllRoundsRan /\ nBad = iterations_under_null) => pc # "done"

\* C7: an unknown null_approach (either engine) or a non-boolean two_tailed
\* (single-sample engine) makes the call fail with an invalid-configuration
\* error before any random draw, any copy of the dataset and any evaluation
\* of the index function; no round is ever started.
C7_InvalidConfigurationRejectedFirst ==
    (\/ (op = "infer" /\ null_approach \notin
            {"systematic", "bootstrap", "evenness", "permutation",
             "systematic_permutation", "even_permutation"})
     \/ (op = "infer" /\ two_tailed \notin {"True", "False"})
     \/ (op = "compare" /\ null_approach \notin
            {"random_label", "counterfactual_composition",
             "counterfactual_share", "counterfactual_dual_composition"}))
        => /\ pc \in {"call", "error"}
           /\ pc = "error" =>
                 err \in {"ValueError: null_approach", "TypeError: two_tailed"}
           /\ NoSimulationWork
           /\ nCopies = 0
           /\ nGen = 0

\* C7 witness: a call with a valid null_approach and a non-boolean
\* two_tailed has been rejected.
C7_Witness ==
    /\ op = "infer"
    /\ pc = "error"
    /\ err = "TypeError: two_tailed"
    /\ two_tailed = "1"

\* C8: decomposing or comparing two index results built from different index
\* formulas always fails, before the counterfactual generator is invoked,
\* before any random draw and before any evaluation of the index function.
C8_DifferentFormulasRejected ==
    (op \in {"compare", "decompose"}
     /\ FunctionOf(seg_class_1.cls) # FunctionOf(seg_class_2.cls))
        => /\ pc \in {"call", "error"}
           /\ NoSimulationWork
           /\ nGen = 0

\* C8 witness: a comparison of two results of different formulas has been
\* rejected by the type test.
C8_Witness ==
    /\ op = "compare"
    /\ FunctionOf(seg_class_1.cls) # FunctionOf(seg_class_2.cls)
    /\ pc = "error"
    /\ err = "TypeError: must be the same type/class"

\* C9: for a multigroup index result the single-sample engine completes only
\* under bootstrap and evenness; under the four other models it fails with
\* the not-implemented error without any random draw or index evaluation.
C9_MultiGroupSupport ==
    (op = "infer" /\ seg_class_1.cls = "MultiDissim")
        => /\ pc = "done" => null_approach \in {"bootstrap", "evenness"}
           /\ (null_approach \in {"systematic", "permutation",
                                  "systematic_permutation", "even_permutation"}
               /\ two_tailed \in {"True", "False"})
                 => /\ pc \in {"call", "branch", "error"}
                    /\ pc = "error" =>
                          err = "ValueError: Not implemented for MultiGroup indexes."
                    /\ NoSimulationWork

\* C9 witness: a multigroup call under systematic has failed with the
\* not-implemented error.
C9_Witness ==
    /\ op = "infer"
    /\ seg_class_1.cls = "MultiDissim"
    /\ null_approach = "systematic"
    /\ pc = "error"
    /\ err = "ValueError: Not implemented for MultiGroup indexes."

\* C10: for a single-group index result whose dataset carries no geometry,
\* permutation, systematic_permutation and even_permutation each fail with a
\* precondition error before any random draw and before the first round.
C10_PermutationNeedsGeometry ==
    (op = "infer"
     /\ seg_class_1.cls = "ModifiedGini"
     /\ seg_class_1.dataType # "GeoDataFrame"
     /\ null_approach \in {"permutation", "systematic_permutation",
                           "even_permutation"}
     /\ two_tailed \in {"True", "False"})
        => /\ pc \in {"call", "branch", "error"}
           /\ pc = "error" => err = "TypeError: data is not a GeoDataFrame"
           /\ NoSimulationWork

\* C10 witness: a systematic_permutation call on a plain DataFrame has been
\* rejected.
C10_Witness ==
    /\ op = "infer"
    /\ seg_class_1.cls = "ModifiedGini"
    /\ seg_class_1.dataType = "DataFrame"
    /\ null_approach = "systematic_permutation"
    /\ pc = "error"
    /\ err = "TypeError: data is not a GeoDataFrame"


-----------------------------------------------------------------------------
\* Vocabulary of the claims about the two-sample engine and the decomposition

CounterfactualCall ==
    op = "compare" /\ null_approach \in
        {"counterfactual_composition", "counterfactual_share",
         "counterfactual_dual_composition"}

BothMultiGroup ==
    seg_class_1.cls = "MultiDissim" /\ seg_class_2.cls = "MultiDissim"

BothSingleGroup ==
    seg_class_1.cls = "ModifiedGini" /\ seg_class_2.cls = "ModifiedGini"

PastBranch ==
    pc \in {"loop", "called", "stored", "shuffled", "called_1", "dropped_1",
            "called_2", "progress", "filter", "done"}

\* C11: a counterfactual null model asked of the two-sample engine for two
\* multi-group results never gets past the branch: the only way out is the
\* not-implemented error, and by then the generator has not been called, no
\* random number has been drawn and the index has not been evaluated.
C11_MultiGroupCounterfactualNotImplemented ==
    (CounterfactualCall /\ BothMultiGroup) =>
        /\ pc \in {"call", "branch", "error"}
        /\ nGen = 0 /\ nDraws = 0 /\ nEvals = 0
        /\ pc = "error" =>
              err = "ValueError: Not implemented for MultiGroup indexes."

C11_Witness ==
    /\ CounterfactualCall /\ BothMultiGroup
    /\ null_approach = "counterfactual_share"
    /\ pc = "error"
    /\ err = "ValueError: Not implemented for MultiGroup indexes."

\* C18: in a counterfactual call of the two-sample engine the generator has
\* been invoked zero times up to the branch and exactly once from the first
\* round on, however many rounds have run.
C18_GeneratorOncePerCall ==
    CounterfactualCall =>
        /\ pc \in {"call", "branch"} => nGen = 0
        /\ PastBranch => nGen = 1

C18_Witness ==
    /\ CounterfactualCall
    /\ pc = "done"
    /\ i >= 2
    /\ nGen = 1

\* C20: from the first round to the return, the point estimate is the
\* statistic of the result (one-sample engine) or the first statistic minus
\* the second (two-sample engine), whatever the null model and however many
\* rounds have run.
C20_PointEstimateFixed ==
    (op \in {"infer", "compare"} /\ PastBranch) =>
        /\ op = "infer" => point_estimation = seg_class_1.statistic
        /\ op = "compare" =>
              point_estimation =
                  <<"fin", seg_class_1.statistic[2] - seg_class_2.statistic[2]>>

C20_Witness ==
    /\ op = "compare"
    /\ pc = "done"
    /\ i >= 2
    /\ seg_class_1.statistic = <<"fin", 1>>
    /\ seg_class_2.statistic = <<"fin", 0>>
    /\ point_estimation = <<"fin", 1>>


DecomposeReturned == op = "decompose" /\ pc = "done"

CrossStatisticsFinite ==
    \A c \in {"s1_a1", "s1_a2", "s2_a1", "s2_a2"} : G[c][1] = "fin"

\* the closed forms of the two components over the reals, doubled
TwiceSpatialClosedForm ==
    (G.s1_a1[2] - G.s2_a1[2]) + (G.s1_a2[2] - G.s2_a2[2])

TwiceAttributeClosedForm ==
    (G.s1_a1[2] - G.s1_a2[2]) + (G.s2_a1[2] - G.s2_a2[2])

\* no step of the left-to-right evaluation of either component is rounded
NoStepRounded ==
    /\ Representable(G.s1_a1[2] - G.s2_a1[2])
    /\ Representable(G.s1_a1[2] - G.s2_a1[2] + G.s1_a2[2])
    /\ Representable(G.s1_a1[2] - G.s2_a1[2] + G.s1_a2[2] - G.s2_a2[2])
    /\ Representable(G.s1_a1[2] - G.s1_a2[2])
    /\ Representable(G.s1_a1[2] - G.s1_a2[2] + G.s2_a1[2])
    /\ Representable(G.s1_a1[2] - G.s1_a2[2] + G.s2_a1[2] - G.s2_a2[2])

\* C12 (as stated): for all values of the four cross statistics the returned
\* components are exactly the grouped closed forms
\* 1/2 * ((s1a1 - s2a1) + (s1a2 - s2a2)) and 1/2 * ((s1a1 - s1a2) + (s2a1 - s2a2)).
C12_ComponentsAreGroupedClosedForms ==
    DecomposeReturned =>
        /\ C_S = <<"half", FAdd(FSub(G.s1_a1, G.s2_a1), FSub(G.s1_a2, G.s2_a2))>>
        /\ C_A = <<"half", FAdd(FSub(G.s1_a1, G.s1_a2), FSub(G.s2_a1, G.s2_a2))>>

\* C12 (amended): the returned components equal the closed forms exactly
\* whenever the four cross statistics are finite and no step of the
\* left-to-right float evaluation is rounded; they are computed from the four
\* values returned as crossStatistics.
C12_ComponentsExactWhenNoRounding ==
    (DecomposeReturned /\ CrossStatisticsFinite /\ NoStepRounded) =>
        /\ C_S = <<"half", <<"fin", TwiceSpatialClosedForm>>>>
        /\ C_A = <<"half", <<"fin", TwiceAttributeClosedForm>>>>

C12_Witness ==
    /\ DecomposeReturned /\ CrossStatisticsFinite /\ NoStepRounded
    /\ G.s1_a1 = <<"fin", 1>> /\ G.s1_a2 = <<"fin", 2>>
    /\ G.s2_a1 = <<"fin", 0>> /\ G.s2_a2 = <<"fin", 0>>
    /\ C_S = <<"half", <<"fin", 3>>>>
    /\ C_A = <<"half", <<"fin", -1>>>>

\* C13: when a decomposition returns, the generator has been invoked once and
\* the index function twice; s1_a1 and s2_a2 are the statistics the two
\* results carried, s1_a2 is what the function returned for the
\* counterfactual columns of counterfactual dataset 1 and s2_a1 what it
\* returned for those of counterfactual dataset 2.
C13_CrossStatisticsProvenance ==
    DecomposeReturned =>
        /\ nGen = 1
        /\ nEvals = 2
        /\ Len(calls) = 2
        /\ G.s1_a1 = seg_class_1.statistic
        /\ G.s2_a2 = seg_class_2.statistic
        /\ \E k \in 1..Len(calls) :
              /\ calls[k].data = "counterfac_df1"
              /\ calls[k].group = "counterfactual_group_pop"
              /\ calls[k].total = "counterfactual_total_pop"
              /\ calls[k].result = G.s1_a2
        /\ \E k \in 1..Len(calls) :
              /\ calls[k].data = "counterfac_df2"
              /\ calls[k].group = "counterfactual_group_pop"
              /\ calls[k].total = "counterfactual_total_pop"
              /\ calls[k].result = G.s2_a1

C13_Witness ==
    /\ DecomposeReturned
    /\ seg_class_1.statistic = <<"fin", 1>>
    /\ seg_class_2.statistic = <<"fin", 0>>
    /\ G = [s1_a1 |-> <<"fin", 1>>, s1_a2 |-> <<"fin", 2>>,
            s2_a1 |-> <<"nan", 0>>, s2_a2 |-> <<"fin", 0>>]
    /\ calls[1].data = "counterfac_df1" /\ calls[1].result = <<"fin", 2>>
    /\ calls[2].data = "counterfac_df2" /\ calls[2].result = <<"nan", 0>>


\* the dataset of index result d as the caller handed it in
SuppliedDataset(d) ==
    IF d = 1 THEN CallerData(seg_class_1, 1) ELSE CallerData(seg_class_2, 2)

\* the number of rows of that dataset
DatasetLength(d) ==
    Len(SuppliedDataset(d)[CHOOSE c \in DOMAIN SuppliedDataset(d) : TRUE])

\* C14: at every point of every call (before, during and after it, whether
\* it returns or raises) the datasets of the index results handed in hold the
\* columns, rows and values they held when the call began.
C14_CallerDatasetUntouched ==
    /\ frames["caller_1"] = SuppliedDataset(1)
    /\ op # "infer" => frames["caller_2"] = SuppliedDataset(2)

C14_Witness ==
    /\ op = "compare"
    /\ pc = "called_2"
    /\ i = 1
    /\ "fair_coin" \in DOMAIN frames[data_2]
    /\ "fair_coin" \notin DOMAIN frames["caller_2"]
    /\ frames["caller_2"] = SuppliedDataset(2)

RoundStarts == op \in {"infer", "compare"} /\ pc = "loop"

\* C15: whenever a round of either engine starts, the frames it works on
\* are what they were when the loop was entered.
C15_RoundStartsFromBaseline ==
    RoundStarts => WorkingData(frames, data_1, data_2) = baseline

RandomLabelCall == op = "compare" /\ null_approach = "random_label"

\* the columns of the pool other than the label
PooledValues(frame) == Drop(frame, {"grouping_variable"})

\* row k of a frame, label left out
PooledRow(frame, k) ==
    [c \in DOMAIN frame \ {"grouping_variable"} |-> frame[c][k]]

NumRows(frame) == Len(frame["grouping_variable"])

\* how often the row occurs in the frame
TimesIn(row, frame) ==
    Cardinality({k \in 1..NumRows(frame) : PooledRow(frame, k) = row})

\* C17: under random_label the pooled group/total values stay what they were
\* when the pool was built; the two frames a round hands to the index
\* function have as many rows as dataset 1 and dataset 2, every pooled row is
\* in exactly one of them, and the value the round records is the first
\* result minus the second.
C17_RandomLabelPartition ==
    /\ (RandomLabelCall /\ DOMAIN frames["stacked"] # {}) =>
          PooledValues(frames["stacked"]) = PooledValues(baseline[3])
    /\ (RandomLabelCall /\ pc = "progress") =>
          /\ Len(passed) = 2
          /\ NumRows(passed[1].data) = DatasetLength(1)
          /\ NumRows(passed[2].data) = DatasetLength(2)
          /\ NumRows(baseline[3]) = DatasetLength(1) + DatasetLength(2)
          /\ \A k \in 1..NumRows(baseline[3]) :
                TimesIn(PooledRow(baseline[3], k), passed[1].data)
                    + TimesIn(PooledRow(baseline[3], k), passed[2].data) = 1
          /\ (simulations[1][1] = "fin" /\ simulations[2][1] = "fin") =>
                est_sim[i + 1] =
                    <<"fin", simulations[1][2] - simulations[2][2]>>
          /\ (simulations[1][1] = "nan" \/ simulations[2][1] = "nan") =>
                est_sim[i + 1][1] = "nan"

C17_Witness ==
    /\ RandomLabelCall
    /\ pc = "progress"
    /\ i = 1
    /\ seg_class_1.cls = "ModifiedGini"
    /\ \E k \in 1..NumRows(passed[1].data) : passed[1].data["group"][k][2] = 2
    /\ simulations = << <<"fin", 2>>, <<"fin", 1>> >>
    /\ est_sim[2] = <<"fin", 1>>

\* C19: in every round of a counterfactual model, the frame handed to the
\* index function for dataset d is read through the columns
\* test_group_pop_var and the total column; row by row the former holds the
\* observed group population where that row's coin exceeded one half and the
\* counterfactual one elsewhere; the latter holds the observed totals under
\* counterfactual_composition and the counterfactual totals under the two
\* other models.
C19_CounterfactualColumnsPassed ==
    (CounterfactualCall /\ pc \in {"called_1", "called_2"}) =>
        LET d == IF pc = "called_1" THEN 1 ELSE 2
            n == DatasetLength(d)
        IN  /\ Len(passed) = 1
            /\ passed[1].columns = <<"test_group_pop_var", "total_pop_var">>
            /\ Len(passed[1].data["test_group_pop_var"]) = n
            /\ \A r \in 1..n :
                  /\ passed[1].data["fair_coin"][r][1] = "above_half" =>
                        passed[1].data["test_group_pop_var"][r] = <<"group", d, r>>
                  /\ passed[1].data["fair_coin"][r][1] = "below_half" =>
                        passed[1].data["test_group_pop_var"][r] =
                            <<"cf_group", d, r>>
                  /\ passed[1].data["fair_coin"][r][1] \in
                        {"above_half", "below_half"}
                  /\ passed[1].data["total_pop_var"][r] =
                        IF null_approach = "counterfactual_composition"
                        THEN <<"total", d, r>> ELSE <<"cf_total", d, r>>

C19_Witness ==
    /\ CounterfactualCall
    /\ null_approach = "counterfactual_composition"
    /\ pc = "called_1"
    /\ i = 1
    /\ passed[1].data["test_group_pop_var"] =
           << <<"group", 1, 1>>, <<"cf_group", 1, 2>> >>
    /\ passed[1].data["total_pop_var"] = << <<"total", 1, 1>>, <<"total", 1, 2>> >>


\* C16: when an engine call and a second run of it on the same inputs and
\* the same random draws have both returned, the two null samples are equal,
\* entry by entry, and so are the two p-values.
C16_SameDrawsSameResult ==
    (EngineReturned /\ replay # <<>>) =>
        /\ replay[1].est_sim = est_sim
        /\ replay[1].p_value = p_value


(* ------------------ one round on every small dataset ------------------ *)

\* the datasets whose shares are defined: somebody lives there
Populated(values) ==
    \E c \in DOMAIN values : ColumnSum(values[c]) > 0

\* a call of _infer_segregation for one round, on any dataset of counts with
\* the default row labels or on the default counts with any row labels
InitRounds ==
    /\ op = "infer"
    /\ null_approach \in InferNullApproaches
    /\ two_tailed = "True"
    /\ iterations_under_null = 1
    /\ seg_class_1 \in IndexResults
    /\ seg_class_1.groups \in {DefaultGroups, <<>>}
    /\ seg_class_1.statistic = Fin(0)
    /\ seg_class_2 = seg_class_1
    /\ counterfactual_approach = ""
    /\ iterations = 1
    /\ \/ /\ data_values \in InputValues(seg_class_1.cls)
          /\ Populated(data_values)
          /\ data_index = RangeIndex(NumUnits)
       \/ /\ data_values = DefaultValues(seg_class_1.cls)
          /\ data_index \in InputIndexes
    /\ NotStarted

NextRounds ==
    \/ InferStart
    \/ InferBranch
    \/ InferRoundCall

SpecRounds == InitRounds /\ [][NextRounds]_vars

\* the index function of the one-sample engine has just been called with
\* the dataset of a round of one of the null models nas
RoundCalled(nas) == op = "infer" /\ pc = "called" /\ null_approach \in nas

\* the dataset that call received
HandedData == passed[1].data

\* the counts a column of a frame holds
Held(col) == [r \in 1..Len(col) |-> col[r][2]]

\* C21: under the permutation model the dataset of every round has the
\* population columns of the input dataset, unit by unit, and a geometry
\* column that holds every geometry of the input as often as the input does,
\* whatever rounds came before
C21_PermutationKeepsPopulationAndGeometries ==
    RoundCalled({"permutation"}) =>
        LET input == frames["caller_1"]
        IN  /\ \A c \in PopulationColumns(seg_class_1.cls) :
                  HandedData[c] = input[c]
            /\ Len(HandedData["geometry"]) = Len(input["geometry"])
            /\ \A r \in 1..Len(input["geometry"]) :
                  Occurrences(HandedData["geometry"], input["geometry"][r])
                      = Occurrences(input["geometry"], input["geometry"][r])

\* a third round was handed a geometry column in another order than the
\* input's
C21_Witness ==
    /\ RoundCalled({"permutation"})
    /\ i = 2
    /\ HandedData["geometry"] # frames["caller_1"]["geometry"]
    /\ HandedData["geometry"][1] = frames["caller_1"]["geometry"][2]

\* C22: under the systematic models every unit of the dataset of a round has
\* 0 <= simul_group <= simul_tot, the synthetic group counts add up to the
\* group population of the input and the synthetic totals to its total
\* population
C22_SystematicCountsAddUp ==
    RoundCalled({"systematic", "systematic_permutation"}) =>
        LET simul_group == Held(HandedData["simul_group"])
            simul_tot == Held(HandedData["simul_tot"])
        IN  /\ \A r \in 1..NumUnits :
                  0 <= simul_group[r] /\ simul_group[r] <= simul_tot[r]
            /\ Len(simul_group) = NumUnits
            /\ Len(simul_tot) = NumUnits
            /\ ColumnSum(simul_group) = ColumnSum(data_values["group_pop_var"])
            /\ ColumnSum(simul_tot) = ColumnSum(data_values["total_pop_var"])

\* a round moved the whole group into the first unit and left it nobody else
C22_Witness ==
    /\ RoundCalled({"systematic"})
    /\ data_values["group_pop_var"][1] = 0
    /\ data_values["group_pop_var"][2] = 1
    /\ data_values["total_pop_var"][1] = 1
    /\ HandedData["simul_group"][1] = Number(1)
    /\ HandedData["simul_tot"][1] = Number(1)

\* C23: under the evenness models every unit of the dataset of a round has
\* the total population it has in the input and a synthetic group count
\* between 0 and that total; for a multigroup input the synthetic group counts
\* of a unit add up to the row total of that unit
C23_EvennessKeepsUnitTotals ==
    RoundCalled({"evenness", "even_permutation"}) =>
        IF IsMultiGroupIndex(seg_class_1.cls)
        THEN \A r \in 1..NumUnits :
                Held(HandedData["group_a"])[r] + Held(HandedData["group_b"])[r]
                    = data_values["group_a"][r] + data_values["group_b"][r]
        ELSE \A r \in 1..NumUnits :
                /\ HandedData["simul_tot"][r]
                      = Number(data_values["total_pop_var"][r])
                /\ 0 <= Held(HandedData["simul_group"])[r]
                /\ Held(HandedData["simul_group"])[r]
                      <= data_values["total_pop_var"][r]

\* a round gave the group member of the second unit to nobody and made a
\* group member of the first unit's only inhabitant
C23_Witness ==
    /\ RoundCalled({"evenness"})
    /\ IsSingleGroupIndex(seg_class_1.cls)
    /\ data_values["group_pop_var"] = [r \in 1..NumUnits |-> IF r = 2 THEN 1 ELSE 0]
    /\ data_values["total_pop_var"] = [r \in 1..NumUnits |-> 1]
    /\ HandedData["simul_group"][1] = Number(1)
    /\ HandedData["simul_group"][2] = Number(0)

\* len(frame)
RowCount(frame) == Len(frame[CHOOSE c \in DOMAIN frame : TRUE])

\* the rows of a frame, each as the values of its columns
FrameRows(frame) ==
    {[c \in DOMAIN frame |-> frame[c][k]] : k \in 1..RowCount(frame)}

\* C24: under the bootstrap model no round fails, and the dataset of every
\* round has as many rows as the input and only rows of the input, whatever
\* the row labels of the input are
C24_BootstrapResamplesRows ==
    op = "infer" /\ null_approach = "bootstrap" =>
        /\ err \notin {"IndexError: positional indexers are out-of-bounds"}
        /\ pc = "called" =>
              /\ RowCount(HandedData) = NumUnits
              /\ FrameRows(HandedData) \subseteq FrameRows(frames["caller_1"])


\* the slots of the array of round statistics that hold a finite statistic
KeptSlots(arr) == {k \in 1..Len(arr) : arr[k][1] = "fin"}

\* the n-th of those slots, in round order
NthKept(arr, n) ==
    CHOOSE k \in KeptSlots(arr) :
        Cardinality({j \in KeptSlots(arr) : j <= k}) = n

\* the final block of an inference engine runs on an array every slot of
\* which a round wrote
FiltersRoundStatistics ==
    /\ op \in {"infer", "compare"}
    /\ pc = "filter"
    /\ pc' = "done"
    /\ Unwritten(est_sim) = {}

\* C25: the returned null sample lists the statistics of the surviving rounds
\* in round order, each once: its n-th entry is the statistic of the n-th
\* round whose statistic is finite
C25_NullSamplePreservesRoundOrder ==
    [][FiltersRoundStatistics =>
          /\ Len(est_sim') = Cardinality(KeptSlots(est_sim))
          /\ \A n \in 1..Len(est_sim') :
                est_sim'[n] = est_sim[NthKept(est_sim, n)]]_vars

\* a call returned two different surviving statistics, the larger one first,
\* after a round between or beside them was dropped
C25_Witness ==
    /\ EngineReturned
    /\ AllRoundsRan
    /\ nBad = 1
    /\ est_sim = <<Fin(1), Fin(0)>>


\* C26: in every run of an inference engine the progress sink advances by
\* one, once per round and only after the statistic of that round has been
\* stored, so that it reports 1, 2, ..., iterations; when the call returns it
\* has reported iterations
C26_ProgressOncePerRound ==
    [][/\ pbar' # pbar =>
             /\ pbar' = pbar + 1
             /\ pbar' = i'
             /\ pbar' <= iterations_under_null
             /\ pbar' \notin Unwritten(est_sim)
       /\ i' # i => pbar' # pbar
       /\ (op \in {"infer", "compare"} /\ pc' = "done") =>
             pbar' = iterations_under_null]_vars


\* C29: when the one-sample engine reaches its final block, every slot of the
\* array was written by a round of this call and the index function was
\* evaluated once per requested round; no p-value is computed from, and no
\* sample returned with, a slot no round wrote
C29_NullSampleWrittenByRounds ==
    (op = "infer" /\ pc \in {"filter", "done"}) =>
        /\ nEvals = iterations_under_null
        /\ pc = "filter" => Unwritten(est_sim) = {}


\* the float sum of the two returned components, doubled: halving and
\* doubling are exact
TwiceComponentSum == FAdd(C_S[2], C_A[2])

\* C28 (as stated): for all finite values of the four cross statistics the two
\* returned components add up exactly to s1a1 - s2a2, the difference of the
\* statistics of the two index results
C28_ComponentsSumToDifference ==
    (DecomposeReturned /\ CrossStatisticsFinite) =>
        /\ TwiceComponentSum = Fin(2 * (G.s1_a1[2] - G.s2_a2[2]))
        /\ G.s1_a1 = seg_class_1.statistic
        /\ G.s2_a2 = seg_class_2.statistic

\* C28 (amended): the two returned components add up exactly to s1a1 - s2a2,
\* the difference of the statistics of the two index results, whatever s1a2
\* and s2a1 are, whenever the cross statistics are finite and no step of the
\* float evaluation of either component is rounded
C28_ComponentsSumWhenNoRounding ==
    (DecomposeReturned /\ CrossStatisticsFinite /\ NoStepRounded) =>
        /\ TwiceComponentSum = Fin(2 * (G.s1_a1[2] - G.s2_a2[2]))
        /\ G.s1_a1 = seg_class_1.statistic
        /\ G.s2_a2 = seg_class_2.statistic

\* a decomposition with two different counterfactual statistics returned a
\* zero spatial component and an attribute component equal to the difference
C28_Witness ==
    /\ DecomposeReturned /\ CrossStatisticsFinite /\ NoStepRounded
    /\ G.s1_a1 = Fin(1) /\ G.s1_a2 = Fin(0)
    /\ G.s2_a1 = Fin(2) /\ G.s2_a2 = Fin(0)
    /\ C_S = Half(Fin(-1))
    /\ C_A = Half(Fin(3))
    /\ TwiceComponentSum = Fin(2)


\* a random_label call on two multigroup results whose group lists differ
\* has passed the branch that pools the two datasets
GroupsMismatchCall ==
    /\ op = "compare"
    /\ null_approach = "random_label"
    /\ BothMultiGroup
    /\ seg_class_1.groups # seg_class_2.groups
    /\ pc \notin {"call", "branch"}

\* C30: a random_label comparison of two multigroup results whose group lists
\* differ fails with the 'MultiGroup groups should be the same' error and no
\* other, before any random draw and before the first round
C30_GroupsMismatchRejected ==
    GroupsMismatchCall =>
        /\ pc = "error"
        /\ err = "ValueError: MultiGroup groups should be the same"
        /\ nDraws = 0
        /\ nEvals = 0
        /\ i = 0


(* ----------------- the construction of a ModifiedGini ----------------- *)

\* ModifiedGini(data, group_pop_var, total_pop_var, iterations) on any
\* populated dataset of counts: self.data is the caller's dataset
InitGini ==
    /\ op = "modified_gini"
    /\ null_approach = ""
    /\ two_tailed = "True"
    /\ iterations_under_null = 1
    /\ counterfactual_approach = ""
    /\ seg_class_1 \in [cls : {"ModifiedGini"}, statistic : {Uninit},
                        dataType : DataTypes, groups : {<<>>}]
    /\ seg_class_2 = seg_class_1
    /\ data_values \in InputValues(seg_class_1.cls)
    /\ Populated(data_values)
    /\ data_index = RangeIndex(NumUnits)
    /\ iterations \in 1..MaxIter
    /\ NotStarted

NextGini ==
    \/ ModifiedGiniStart
    \/ ModifiedGiniRound
    \/ ModifiedGiniReturn
    \/ ModifiedGiniInit

SpecGini == InitGini /\ [][NextGini]_vars

\* C27: the core data _modified_gini returns, which becomes the dataset of the
\* ModifiedGini result, holds in its group population column the group
\* population of every unit of the input dataset, for any iterations >= 1;
\* the caller's dataset is unchanged
C27_CoreDataHoldsInputGroupPopulation ==
    op = "modified_gini" =>
        /\ frames["caller_1"] = CallerData(seg_class_1, 1)
        /\ pc \in {"returned", "done"} =>
              ValuesOf(frames[core_data]["group_pop_var"])
                  = data_values["group_pop_var"]
        /\ pc = "done" => self_data = core_data

====
